---- MODULE Spec2Model ----
(***************************************************************************)
(* A model of reid/loss/triplet.py (batch-hard triplet mining and the      *)
(* triplet loss) and of reid/datasets/duke_my_GT.py (dataset registration  *)
(* and the train/val split).                                               *)
(*                                                                         *)
(* Tensors are functions over 0-based indices, as in the source: a vector  *)
(* of length L is a function over 0..L-1, an N x N matrix a function over  *)
(* (0..N-1) \X (0..N-1).  Distances are integers in units of 1e-6, so that *)
(* the clamp floor of euclidean_dist, sqrt(1e-12), is exactly one unit.    *)
(***************************************************************************)
EXTENDS Integers, Sequences, FiniteSets, TLC

VARIABLES
    pc,                 \* position of the call being modelled
    out,                \* what the call returned, or the error it raised
    dist_mat,           \* hard_example_mining: [size, data]
    labels,             \* hard_example_mining / forward: identity labels
    global_feat,        \* forward: features, shape [N, 1]
    margin,             \* TripletLoss.margin
    normalize_feature,  \* forward: flag
    iCams,              \* download: cameras to register
    identities,         \* download: <<pid, cam>> -> number of file names appended
    fake_identities,    \* download: <<pid, cam>> -> number of file names appended
    trainval_pids, gallery_pids, query_pids, camstyle_pids,
    nfiles,             \* download: files visited so far
    split_id, splits,   \* load: self.split_id and the content of splits.json
    num_val,            \* load: argument
    train_pids, val_pids

vars == <<pc, out, dist_mat, labels, global_feat, margin, normalize_feature,
          iCams, identities, fake_identities, trainval_pids, gallery_pids,
          query_pids, camstyle_pids, nfiles, split_id, splits, num_val,
          train_pids, val_pids>>

tripletVars == <<dist_mat, labels, global_feat, margin, normalize_feature>>
downloadVars == <<iCams, identities, fake_identities, trainval_pids,
                  gallery_pids, query_pids, camstyle_pids, nfiles>>
loadVars == <<split_id, splits, num_val, train_pids, val_pids>>

Empty == <<>>
\* An optional number: None, or Some(x)
None == <<>>
Some(x) == <<x>>

\* Largest batch size N explored.
MaxN == 6
\* Largest size explored for malformed inputs (non-square, wrong label length).
MaxBad == 4

Idx(n) == 0 .. (n - 1)
Size(v) == Cardinality(DOMAIN v)
Raise(e) == [status |-> "error", error |-> e]

SetMax(S) == CHOOSE x \in S : \A y \in S : y <= x
SetMin(S) == CHOOSE x \in S : \A y \in S : x <= y

(***************************************************************************)
(* torch primitives used by hard_example_mining                            *)
(***************************************************************************)

\* labels.expand(N, N) of a 1-D tensor of length L is defined when L = N, or
\* when L = 1 (a size-1 dimension broadcasts).
ExpandableCyclic(L, N) == L >= 1 /\ L <= N
Expandable(L, N) == L = N \/ L = 1

\* labels.expand(N, N)[i][j]: lab[j] when L = N, lab[0] when L = 1
Expand(lab, N) == [p \in Idx(N) \X Idx(N) |-> lab[p[2] % Size(lab)]]

\* .t()
Transpose(m, N) == [p \in Idx(N) \X Idx(N) |-> m[<<p[2], p[1]>>]]

\* the positions of an N x N tensor in storage (row-major) order
RowMajor(N) == [k \in 1 .. N * N |-> <<(k - 1) \div N, (k - 1) % N>>]

\* t[mask]: the elements of t where mask is true, in row-major order
MaskedSelect(t, mask, N) ==
    LET sel == SelectSeq(RowMajor(N), LAMBDA p : mask[p])
    IN  [k \in 1 .. Len(sel) |-> t[sel[k]]]

\* .view(N, -1) of a flat tensor: the inferred width, or -1 when the view is
\* refused (N = 0 makes the width ambiguous; otherwise N must divide numel).
ViewWidthTruncating(flat, N) == IF N = 0 THEN -1 ELSE Len(flat) \div N
ViewWidth(flat, N) ==
    IF N = 0 \/ Len(flat) % N # 0 THEN -1 ELSE Len(flat) \div N

\* row i of flat.view(N, w)
ViewRow(flat, w, i) == SubSeq(flat, i * w + 1, (i + 1) * w)

\* torch.max(row): the value and the (0-based) index of its first occurrence
TorchMaxAsMin(row) ==
    LET v == SetMin({row[k] : k \in 1 .. Len(row)})
    IN  [values |-> v, indices |-> SetMin({k \in 1 .. Len(row) : row[k] = v}) - 1]
TorchMax(row) ==
    LET v == SetMax({row[k] : k \in 1 .. Len(row)})
    IN  [values |-> v, indices |-> SetMin({k \in 1 .. Len(row) : row[k] = v}) - 1]

\* torch.min(row): the value and the (0-based) index of its first occurrence
TorchMinAsMax(row) ==
    LET v == SetMax({row[k] : k \in 1 .. Len(row)})
    IN  [values |-> v, indices |-> SetMin({k \in 1 .. Len(row) : row[k] = v}) - 1]
TorchMin(row) ==
    LET v == SetMin({row[k] : k \in 1 .. Len(row)})
    IN  [values |-> v, indices |-> SetMin({k \in 1 .. Len(row) : row[k] = v}) - 1]

\* A reduction along a dimension of size 0 is refused.
Reducible(w) == w >= 1

\* arange(0, N).unsqueeze(0).expand(N, N): ind[i][j] = j
IndTensorRows(N) == [p \in Idx(N) \X Idx(N) |-> p[1]]
IndTensor(N) == [p \in Idx(N) \X Idx(N) |-> p[2]]

\* torch.gather(rows, 1, rel)[i] = rows[i][rel[i]]
Gather(flat, w, rel, N) == [i \in Idx(N) |-> ViewRow(flat, w, i)[rel[i] + 1]]

(***************************************************************************)
(* hard_example_mining(dist_mat, labels, return_inds)                      *)
(***************************************************************************)

is_pos_of(lab, N) ==
    LET e == Expand(lab, N)
        t == Transpose(e, N)
    IN  [p \in Idx(N) \X Idx(N) |-> e[p] = t[p]]

\* (a mask of "any other sample" instead of "any sample of another identity")
is_neg_other_sample(lab, N) == [p \in Idx(N) \X Idx(N) |-> p[1] # p[2]]
is_neg_of(lab, N) ==
    LET e == Expand(lab, N)
        t == Transpose(e, N)
    IN  [p \in Idx(N) \X Idx(N) |-> e[p] # t[p]]

\* lines 57-88, entered once both assertions and the expand have passed
Mine(dm, lab, N, ri) ==
    LET is_pos == is_pos_of(lab, N)
        is_neg == is_neg_of(lab, N)
        pos == MaskedSelect(dm.data, is_pos, N)
        neg == MaskedSelect(dm.data, is_neg, N)
        wp == ViewWidth(pos, N)
        wn == ViewWidth(neg, N)
    IN  IF wp < 0 THEN Raise("RuntimeError")
        ELSE IF ~Reducible(wp) THEN Raise("IndexError")
        ELSE IF wn < 0 THEN Raise("RuntimeError")
        ELSE IF ~Reducible(wn) THEN Raise("IndexError")
        ELSE
        LET mx == [i \in Idx(N) |-> TorchMax(ViewRow(pos, wp, i))]
            mn == [i \in Idx(N) |-> TorchMin(ViewRow(neg, wn, i))]
            dist_ap == [i \in Idx(N) |-> mx[i].values]
            dist_an == [i \in Idx(N) |-> mn[i].values]
            relative_p_inds == [i \in Idx(N) |-> mx[i].indices]
            relative_n_inds == [i \in Idx(N) |-> mn[i].indices]
        IN  IF ri
            THEN LET ind == IndTensor(N)
                 IN  [status |-> "ok", dist_ap |-> dist_ap, dist_an |-> dist_an,
                      p_inds |-> Gather(MaskedSelect(ind, is_pos, N), wp,
                                        relative_p_inds, N),
                      n_inds |-> Gather(MaskedSelect(ind, is_neg, N), wn,
                                        relative_n_inds, N)]
            ELSE [status |-> "ok", dist_ap |-> dist_ap, dist_an |-> dist_an]

hard_example_mining(dm, lab, ri) ==
    IF Len(dm.size) # 2 THEN Raise("AssertionError")
    ELSE IF dm.size[1] # dm.size[2] THEN Raise("AssertionError")
    ELSE IF ~Expandable(Size(lab), dm.size[1]) THEN Raise("RuntimeError")
    ELSE Mine(dm, lab, dm.size[1], ri)

(***************************************************************************)
(* Inputs of hard_example_mining                                           *)
(***************************************************************************)

\* Label vectors of length n up to renaming of the identities: the first
\* sample has identity 0 and each later sample either repeats an identity
\* already seen or takes the next unused one.  The mining reads labels only
\* through equality, so every label vector behaves as one of these.
NextId(s) == IF Len(s) = 0 THEN 0 ELSE SetMax({s[k] : k \in 1 .. Len(s)}) + 1

RECURSIVE LabelSeqs(_)
LabelSeqs(n) ==
    IF n = 0 THEN {<<>>}
    ELSE UNION {{Append(s, v) : v \in 0 .. NextId(s)} : s \in LabelSeqs(n - 1)}

Vec(s) == [i \in Idx(Len(s)) |-> s[i + 1]]
LabelVecs(n) == {Vec(s) : s \in LabelSeqs(n)}

\* Arbitrary small label vectors, for the malformed inputs.
AnyLabelVecs(n) == [Idx(n) -> {0, 1}]

\* Entries of the distance matrices explored.
DistVals == 0 .. 3

\* A family of N x N matrices (not necessarily symmetric, not necessarily
\* zero on the diagonal), indexed by three coefficients.
GenMatrix(N, M, a, b, c) ==
    [size |-> <<N, M>>,
     data |-> [p \in Idx(N) \X Idx(M) |->
                 (a * p[1] + b * p[2] + c * p[1] * p[2] + (p[1] * p[1]) \div 2)
                    % Cardinality(DistVals)]]

\* A tensor that is not 2-D: only its size is read.
NonMatrix(sz) == [size |-> sz, data |-> Empty]

\* The coefficient triples of the family.
Coeffs == DistVals \X DistVals \X DistVals
FewCoeffs == {<<1, 2, 0>>, <<0, 1, 3>>}

\* square matrix, label vector of matching length
MatchedInput ==
    \E N \in 0 .. MaxN : \E c \in Coeffs : \E l \in LabelVecs(N) :
        /\ dist_mat = GenMatrix(N, N, c[1], c[2], c[3])
        /\ labels = l

\* square matrix, label vector of another length
MismatchedInput ==
    \E N \in 0 .. MaxBad : \E L \in (0 .. MaxBad) \ {N} :
    \E c \in FewCoeffs : \E l \in AnyLabelVecs(L) :
        /\ dist_mat = GenMatrix(N, N, c[1], c[2], c[3])
        /\ labels = l

\* matrix that is not square
NonSquareInput ==
    \E N \in 0 .. MaxBad : \E M \in (0 .. MaxBad) \ {N} : \E L \in 0 .. MaxBad :
    \E c \in FewCoeffs : \E l \in AnyLabelVecs(L) :
        /\ dist_mat = GenMatrix(N, M, c[1], c[2], c[3])
        /\ labels = l

\* tensor that is not 2-D
NonMatrixInput ==
    \E n \in 0 .. MaxBad : \E sz \in {<<n>>, <<n, n, n>>} : \E l \in AnyLabelVecs(n) :
        /\ dist_mat = NonMatrix(sz)
        /\ labels = l

(***************************************************************************)
(* Values of the variables a specification does not use                    *)
(***************************************************************************)

IdleTriplet ==
    /\ dist_mat = NonMatrix(<<>>)
    /\ labels = Empty
    /\ global_feat = Empty
    /\ margin = None
    /\ normalize_feature = FALSE

IdleDownload ==
    /\ iCams = {}
    /\ identities = Empty
    /\ fake_identities = Empty
    /\ trainval_pids = {}
    /\ gallery_pids = {}
    /\ query_pids = {}
    /\ camstyle_pids = {}
    /\ nfiles = 0

IdleLoad ==
    /\ split_id = 0
    /\ splits = Empty
    /\ num_val = Empty
    /\ train_pids = Empty
    /\ val_pids = Empty

(***************************************************************************)
(* Specification of a call of hard_example_mining                          *)
(***************************************************************************)

InitMine ==
    /\ pc = "call"
    /\ out = Empty
    /\ (MatchedInput \/ MismatchedInput \/ NonSquareInput \/ NonMatrixInput)
    /\ global_feat = Empty
    /\ margin = None
    /\ normalize_feature = FALSE
    /\ IdleDownload
    /\ IdleLoad

HardExampleMining(return_inds) ==
    /\ pc = "call"
    /\ out' = hard_example_mining(dist_mat, labels, return_inds)
    /\ pc' = "done"
    /\ UNCHANGED <<tripletVars, downloadVars, loadVars>>

NextMine == \E return_inds \in BOOLEAN : HardExampleMining(return_inds)

Spec == InitMine /\ [][NextMine]_vars

(***************************************************************************)
(* TripletLoss.forward(global_feat, labels, normalize_feature)             *)
(*                                                                         *)
(* Features have one channel (shape [N, 1]) and integer values, held in    *)
(* float32: every intermediate value below is then exact, the square root  *)
(* is taken of a perfect square, and a distance is either a whole number   *)
(* of feature units (Scale units of 1e-6) or the clamp floor.              *)
(***************************************************************************)

\* one feature unit, in units of 1e-6
Scale == 1000000
\* sqrt(1e-12), in units of 1e-6: the least value euclidean_dist returns
DistFloor == 1

Abs(x) == IF x < 0 THEN -x ELSE x
Max0(x) == IF x < 0 THEN 0 ELSE x
IntSqrt(s) == CHOOSE r \in 0 .. s : r * r = s

RECURSIVE SumOver(_, _)
SumOver(f, S) ==
    IF S = {} THEN 0
    ELSE LET i == CHOOSE j \in S : TRUE IN f[i] + SumOver(f, S \ {i})

\* normalize(x, axis=-1): x / (||x|| + 1e-12) along the channel; with one
\* channel and float32 values of magnitude >= 1 the denominator rounds to
\* |x|, so the result is the sign of x, and 0 stays 0
Normalize(x) ==
    [i \in DOMAIN x |-> IF x[i] = 0 THEN 0 ELSE x[i] \div Abs(x[i])]

\* clamp(min=1e-12).sqrt() of a squared distance given in feature units
ClampSqrt(sq) == IF sq < 1 THEN DistFloor ELSE IntSqrt(sq) * Scale

\* euclidean_dist(x, y): xx + yy - 2 * x @ y.t(), clamped, square root
euclidean_dist(x, y) ==
    LET m == Size(x)
        n == Size(y)
        xx == [p \in Idx(m) \X Idx(n) |-> x[p[1]] * x[p[1]]]
        yy == [p \in Idx(m) \X Idx(n) |-> y[p[2]] * y[p[2]]]
        dist == [p \in Idx(m) \X Idx(n) |-> xx[p] + yy[p] - 2 * x[p[1]] * y[p[2]]]
    IN  [size |-> <<m, n>>,
         data |-> [p \in Idx(m) \X Idx(n) |-> ClampSqrt(dist[p])]]

\* __init__: the ranking loss is MarginRankingLoss when margin is not None
HasMarginTruthy(m) == m # None /\ m[1] # 0
HasMargin(m) == m # None

\* nn.MarginRankingLoss(margin)(x1, x2, y): mean(max(0, -y * (x1 - x2) + margin)),
\* as the fraction num / den
MarginRankingLoss(m, x1, x2, y) ==
    [kind |-> "MarginRankingLoss",
     num |-> SumOver([i \in DOMAIN y |-> Max0(-y[i] * (x1[i] - x2[i]) + m)], DOMAIN y),
     den |-> Size(y)]

\* nn.SoftMarginLoss()(x, y): mean(log(1 + exp(-y * x))), kept as its arguments
SoftMarginLoss(x, y) ==
    [kind |-> "SoftMarginLoss", arg |-> [i \in DOMAIN y |-> y[i] * x[i]], den |-> Size(y)]

\* (dist_an.data > dist_ap.data).sum() * 1. / y.size(0), as the fraction num / den
PrecisionAtLeast(dist_an, dist_ap, y) ==
    [num |-> Cardinality({i \in DOMAIN y : dist_an[i] >= dist_ap[i]}), den |-> Size(y)]
Precision(dist_an, dist_ap, y) ==
    [num |-> Cardinality({i \in DOMAIN y : dist_an[i] > dist_ap[i]}), den |-> Size(y)]

forward(m, feat, lab, nf) ==
    LET gf == IF nf THEN Normalize(feat) ELSE feat
        dm == euclidean_dist(gf, gf)
        mined == hard_example_mining(dm, lab, TRUE)
    IN  IF mined.status = "error" THEN mined
        ELSE
        LET y == [i \in DOMAIN mined.dist_an |-> 1]
            loss == IF HasMargin(m)
                    THEN MarginRankingLoss(m[1], mined.dist_an, mined.dist_ap, y)
                    ELSE SoftMarginLoss([i \in DOMAIN y |->
                                           mined.dist_an[i] - mined.dist_ap[i]], y)
            prec == Precision(mined.dist_an, mined.dist_ap, y)
        IN  [status |-> "ok", loss |-> loss, prec |-> prec,
             dist_ap |-> mined.dist_ap, dist_an |-> mined.dist_an]

\* Feature values and margins explored (margins in units of 1e-6: 0, 0.3, 2.0, -1.0).
FeatVals == {-1, 0, 4, 6}
MarginVals == {None, Some(0), Some(300000), Some(2 * Scale), Some(-Scale)}

\* Batches are laid out in non-decreasing feature order; the large ones are
\* grouped by identity, the identities numbered in order of appearance.
RECURSIVE SortedSeqs(_, _)
SortedSeqs(n, V) ==
    IF n = 0 THEN {<<>>}
    ELSE UNION {{Append(s, v) : v \in {w \in V : Len(s) = 0 \/ w >= s[Len(s)]}}
                : s \in SortedSeqs(n - 1, V)}

RECURSIVE GroupedSeqs(_)
GroupedSeqs(n) ==
    IF n = 0 THEN {<<>>}
    ELSE UNION {{Append(s, v) : v \in IF Len(s) = 0 THEN {0}
                                       ELSE {s[Len(s)], s[Len(s)] + 1}}
                : s \in GroupedSeqs(n - 1)}

InitForward ==
    /\ pc = "call"
    /\ out = Empty
    /\ dist_mat = NonMatrix(<<>>)
    /\ \/ \E N \in 0 .. MaxN :
            /\ \E f \in SortedSeqs(N, FeatVals) : global_feat = Vec(f)
            /\ \E l \in GroupedSeqs(N) : labels = Vec(l)
       \* small batches whose identities are interleaved
       \/ \E N \in 0 .. (MaxBad + 1) :
            /\ \E f \in SortedSeqs(N, FeatVals) : global_feat = Vec(f)
            /\ \E l \in LabelVecs(N) : labels = l
    /\ margin \in MarginVals
    /\ normalize_feature \in BOOLEAN
    /\ IdleDownload
    /\ IdleLoad

Forward ==
    /\ pc = "call"
    /\ out' = forward(margin, global_feat, labels, normalize_feature)
    /\ pc' = "done"
    /\ UNCHANGED <<tripletVars, downloadVars, loadVars>>

NextForward == Forward

SpecForward == InitForward /\ [][NextForward]_vars

(***************************************************************************)
(* DukeMyGT.download: the registration of the image files                  *)
(*                                                                         *)
(* A table of per-identity, per-camera file-name lists is kept as the      *)
(* function from the index pairs appended to so far to the length of the   *)
(* list there; every other list of the table is empty.  One action visits  *)
(* one file of the directory being scanned; extracting the archive and     *)
(* copying the image are file-system effects outside the state modelled.   *)
(***************************************************************************)

\* identities = [[[] for _ in range(8 + 6)] for _ in range(10000)]
NumIdentities == 10000
NumCameras == 14
\* fake_identities = [[[] for _ in range(8)] for _ in range(8000)]
NumFakeIdentities == 8000
NumFakeCameras == 8
\* assert 0 <= pid <= 8000 and assert 1 <= cam <= 8 (duke_register, fake_register)
MaxDukePid == 8000
MaxDukeCam == 8
\* assert 0 <= pid <= 1501 and assert 1 <= cam <= 6 (market_register)
MaxMarketPid == 1501
MaxMarketCam == 6
\* cam = cam - 1 + 8 and pid += 8000 (market_register)
MarketCamShift == 8
MarketPidShift == 8000

\* Files visited in one run of download.
MaxFiles == 3

\* What the patterns ([-\d]+)_c(\d) and fake_(\d) can read in a file name: any
\* integer for the identity (these are the ones explored), one digit for a camera.
PidVals == {-2, -1, 0, MaxMarketPid, MaxMarketPid + 1,
            NumFakeIdentities - 1, MaxDukePid, MaxDukePid + 1}
CamVals == {0, 1, 2, MaxMarketCam, MaxMarketCam + 1, MaxDukeCam, MaxDukeCam + 1}
ICamsVals == {1 .. 8, {1, 2}, {8, 9}}

\* table[pid][cam] of a list of `rows` lists of `cols` lists: Python accepts
\* an index i of a list of length n when -n <= i < n
InRange(i, n) == -n <= i /\ i < n
Indexable(pid, cam, rows, cols) == InRange(pid, rows) /\ InRange(cam, cols)

\* table[pid][cam].append(fname)
AppendTo(table, pid, cam) ==
    LET k == <<pid, cam>>
    IN  IF k \in DOMAIN table
        THEN [table EXCEPT ![k] = @ + 1]
        ELSE [q \in DOMAIN table \cup {k} |-> IF q = k THEN 1 ELSE table[q]]

\* sorted(list(S))
RECURSIVE Sorted(_)
Sorted(S) == IF S = {} THEN <<>> ELSE <<SetMin(S)>> \o Sorted(S \ {SetMin(S)})

Fail(e) ==
    /\ pc' = "error"
    /\ out' = Raise(e)

Skip == UNCHANGED <<pc, out>>

\* one file of duke_register (lines 111-126), found in the directory of iCam
DukeRegisterFile(iCam, pid, cam) ==
    /\ pc = "duke_register"
    /\ nfiles < MaxFiles
    /\ iCam \in iCams
    /\ nfiles' = nfiles + 1
    /\ IF pid = -1
       THEN Skip /\ UNCHANGED <<identities, trainval_pids>>
       ELSE IF ~(0 <= pid /\ pid <= MaxDukePid) \/ ~(1 <= cam /\ cam <= MaxDukeCam)
       THEN Fail("AssertionError") /\ UNCHANGED <<identities, trainval_pids>>
       ELSE IF ~Indexable(pid, cam - 1, NumIdentities, NumCameras)
       THEN Fail("IndexError") /\ trainval_pids' = trainval_pids \cup {pid}
                               /\ UNCHANGED identities
       ELSE /\ trainval_pids' = trainval_pids \cup {pid}
            /\ identities' = AppendTo(identities, pid, cam - 1)
            /\ Skip
    /\ UNCHANGED <<tripletVars, loadVars, iCams, fake_identities, gallery_pids,
                   query_pids, camstyle_pids>>

\* one file of market_register (lines 93-103), for 'bounding_box_test' or 'query'
MarketRegisterFile(subdir, pid, cam) ==
    /\ pc = subdir
    /\ subdir \in {"bounding_box_test", "query"}
    /\ nfiles < MaxFiles
    /\ nfiles' = nfiles + 1
    /\ LET pids == IF subdir = "query" THEN query_pids ELSE gallery_pids
           shifted == pid + MarketPidShift
           added == pids \cup {shifted}
       IN  IF pid = -1
           THEN Skip /\ UNCHANGED <<identities, gallery_pids, query_pids>>
           ELSE IF ~(0 <= pid /\ pid <= MaxMarketPid) \/ ~(1 <= cam /\ cam <= MaxMarketCam)
           THEN Fail("AssertionError") /\ UNCHANGED <<identities, gallery_pids, query_pids>>
           ELSE /\ gallery_pids' = IF subdir = "query" THEN gallery_pids ELSE added
                /\ query_pids' = IF subdir = "query" THEN added ELSE query_pids
                /\ IF ~Indexable(shifted, cam - 1 + MarketCamShift,
                                 NumIdentities, NumCameras)
                   THEN Fail("IndexError") /\ UNCHANGED identities
                   ELSE /\ identities' =
                             AppendTo(identities, shifted, cam - 1 + MarketCamShift)
                        /\ Skip
    /\ UNCHANGED <<tripletVars, loadVars, iCams, fake_identities, trainval_pids,
                   camstyle_pids>>

\* one file of fake_register (lines 135-156)
FakeRegisterFile(pid, source_cam, fake_cam) ==
    /\ pc = "fake_register"
    /\ nfiles < MaxFiles
    /\ nfiles' = nfiles + 1
    /\ IF \/ pid = -1
          \/ fake_cam = source_cam
          \/ pid \notin trainval_pids
          \/ fake_cam \notin iCams
       THEN Skip /\ UNCHANGED <<fake_identities, camstyle_pids>>
       ELSE IF ~(0 <= pid /\ pid <= MaxDukePid) \/ ~(1 <= fake_cam /\ fake_cam <= MaxDukeCam)
       THEN Fail("AssertionError") /\ UNCHANGED <<fake_identities, camstyle_pids>>
       ELSE /\ camstyle_pids' = camstyle_pids \cup {pid}
            /\ IF ~Indexable(pid, fake_cam - 1, NumFakeIdentities, NumFakeCameras)
               THEN Fail("IndexError") /\ UNCHANGED fake_identities
               ELSE /\ fake_identities' = AppendTo(fake_identities, pid, fake_cam - 1)
                    /\ Skip
    /\ UNCHANGED <<tripletVars, loadVars, iCams, identities, trainval_pids,
                   gallery_pids, query_pids>>

\* a register function has seen every file of its directories and returns
\* (lines 161-164)
RegisterReturns ==
    /\ pc \in {"duke_register", "bounding_box_test", "query", "fake_register"}
    /\ pc' = CASE pc = "duke_register" -> "bounding_box_test"
               [] pc = "bounding_box_test" -> "query"
               [] pc = "query" -> "fake_register"
               [] pc = "fake_register" -> "save"
    /\ UNCHANGED <<out, tripletVars, downloadVars, loadVars>>

\* the closing assertions and the split written to splits.json (lines 165-184)
SaveSplits ==
    /\ pc = "save"
    /\ IF ~(query_pids \subseteq gallery_pids) \/ trainval_pids \cap gallery_pids # {}
       THEN Fail("AssertionError") /\ UNCHANGED splits
       ELSE /\ pc' = "done"
            /\ out' = [status |-> "ok"]
            /\ splits' = <<[trainval |-> Sorted(trainval_pids),
                            query |-> Sorted(query_pids),
                            gallery |-> Sorted(gallery_pids),
                            camstyle |-> Sorted(camstyle_pids)]>>
    /\ UNCHANGED <<tripletVars, downloadVars, split_id, num_val, train_pids, val_pids>>

InitDownload ==
    /\ pc = "duke_register"
    /\ out = Empty
    /\ IdleTriplet
    /\ iCams \in ICamsVals
    /\ identities = Empty
    /\ fake_identities = Empty
    /\ trainval_pids = {}
    /\ gallery_pids = {}
    /\ query_pids = {}
    /\ camstyle_pids = {}
    /\ nfiles = 0
    /\ IdleLoad

NextDownload ==
    \/ \E iCam \in 0 .. 9, pid \in PidVals, cam \in CamVals :
          DukeRegisterFile(iCam, pid, cam)
    \/ \E subdir \in {"bounding_box_test", "query"}, pid \in PidVals, cam \in CamVals :
          MarketRegisterFile(subdir, pid, cam)
    \/ \E pid \in PidVals, source_cam \in CamVals, fake_cam \in CamVals :
          FakeRegisterFile(pid, source_cam, fake_cam)
    \/ RegisterReturns
    \/ SaveSplits

SpecDownload == InitDownload /\ [][NextDownload]_vars

\* C9: every identity index and camera index used to append a file name to
\* identities (10000 x 14) or fake_identities (8000 x 8) is within the table,
\* for every pid and camera number that passes the register's assertions:
\* no append raises IndexError.
C9_IndicesInBounds ==
    ~(pc = "error" /\ out.error = "IndexError")

(***************************************************************************)
(* DukeMyGT.load(num_val): the random train / val split                    *)
(*                                                                         *)
(* The image lists that _pluck then reads out of meta.json for each        *)
(* identity list (lines 209-218) are not part of the state modelled.       *)
(***************************************************************************)

\* Identities of the trainval split explored: subsets of 1 .. MaxPids.
MaxPids == 4

\* num_val is an int, or a float given in tenths
IntArg(k) == [type |-> "int", value |-> k]
FloatArg(t) == [type |-> "float", tenths |-> t]
NumValArgs ==
    {IntArg(k) : k \in -1 .. (MaxPids + 1)} \cup {FloatArg(t) : t \in {0, 3, 5, 10}}

\* int(round(num * num_val)) for num_val = t / 10 >= 0.  A product that ends
\* in .5 rounds away from zero under Python 2 and to the even neighbour under
\* Python 3; the module supports both.
RoundedProducts(num, t) ==
    LET p == num * t
        lo == p \div 10
    IN  IF p % 10 < 5 THEN {lo}
        ELSE IF p % 10 > 5 THEN {lo + 1}
        ELSE {lo + 1, IF lo % 2 = 0 THEN lo ELSE lo + 1}

\* np.random.shuffle: any order of the sequence
Shuffles(seq) ==
    LET n == Len(seq)
        perms == {f \in [1 .. n -> 1 .. n] : \A i, j \in 1 .. n : f[i] = f[j] => i = j}
    IN  {[i \in 1 .. n |-> seq[f[i]]] : f \in perms}

\* Python slice bounds: a negative index counts from the end, and both ends
\* are clipped to the sequence
Clip(i, n) == IF i < 0 THEN Max0(n + i) ELSE IF i > n THEN n ELSE i
\* seq[:stop] and seq[start:], given the Python index
SliceTo(seq, stop) == SubSeq(seq, 1, Clip(stop, Len(seq)))
SliceFrom(seq, start) == SubSeq(seq, Clip(start, Len(seq)) + 1, Len(seq))

SeqSet(seq) == {seq[k] : k \in 1 .. Len(seq)}

\* `if num_val:` (line 202)
TruthyAlways(k) == TRUE
Truthy(k) == k # 0

\* lines 194-207 and 219-221, for the shuffled order `shuffled` and the
\* integer num_val `k`
SplitTrainVal(shuffled, k) ==
    LET num == Len(shuffled)
    IN  IF k >= num \/ k < 0 THEN Raise("ValueError")
        ELSE LET train == IF Truthy(k) THEN Sorted(SeqSet(SliceTo(shuffled, -k)))
                                        ELSE Sorted(SeqSet(shuffled))
                 val == IF Truthy(k) THEN Sorted(SeqSet(SliceFrom(shuffled, -k)))
                                      ELSE Sorted({})
             IN  [status |-> "ok", train_pids |-> train, val_pids |-> val,
                  num_train_ids |-> Len(train), num_val_ids |-> Len(val),
                  num_trainval_ids |-> num]

InitLoad ==
    /\ pc = "call"
    /\ out = Empty
    /\ IdleTriplet
    /\ IdleDownload
    /\ split_id \in {0, 1}
    /\ \E S \in SUBSET (1 .. MaxPids) :
          splits = <<[trainval |-> Sorted(S), query |-> <<>>, gallery |-> <<>>,
                      camstyle |-> <<>>]>>
    /\ num_val \in NumValArgs
    /\ train_pids = Empty
    /\ val_pids = Empty

Load ==
    /\ pc = "call"
    /\ pc' = "done"
    /\ IF split_id >= Len(splits)
       THEN out' = Raise("ValueError") /\ UNCHANGED <<train_pids, val_pids>>
       ELSE \E shuffled \in Shuffles(splits[split_id + 1].trainval) :
            \E k \in IF num_val.type = "float"
                     THEN RoundedProducts(Len(shuffled), num_val.tenths)
                     ELSE {num_val.value} :
               LET r == SplitTrainVal(shuffled, k)
               IN  /\ out' = r
                   /\ IF r.status = "ok"
                      THEN train_pids' = r.train_pids /\ val_pids' = r.val_pids
                      ELSE UNCHANGED <<train_pids, val_pids>>
    /\ UNCHANGED <<tripletVars, downloadVars, split_id, splits, num_val>>

NextLoad == Load

SpecLoad == InitLoad /\ [][NextLoad]_vars

TrainVal == SeqSet(splits[1].trainval)
NumTrainVal == Len(splits[1].trainval)
IsSortedSeq(seq) == \A i, j \in 1 .. Len(seq) : i < j => seq[i] < seq[j]

\* C10: with an integer num_val over num trainval identities, load raises
\* ValueError when num_val < 0 or num_val >= num (num = 0 included); otherwise
\* train and val are disjoint, their union is the trainval set, val has
\* num_val identities and train has num - num_val, whatever the shuffle.
C10_TrainValSplit ==
    (pc = "done" /\ split_id = 0 /\ num_val.type = "int") =>
        IF num_val.value < 0 \/ num_val.value >= NumTrainVal
        THEN out.status = "error" /\ out.error = "ValueError"
        ELSE /\ out.status = "ok"
             /\ SeqSet(train_pids) \cap SeqSet(val_pids) = {}
             /\ SeqSet(train_pids) \cup SeqSet(val_pids) = TrainVal
             /\ IsSortedSeq(train_pids) /\ IsSortedSeq(val_pids)
             /\ Len(val_pids) = num_val.value
             /\ Len(train_pids) = NumTrainVal - num_val.value
             /\ out.num_val_ids = num_val.value
             /\ out.num_train_ids = NumTrainVal - num_val.value

\* a split that holds out two identities which are not the two largest
C10_Witness ==
    /\ pc = "done" /\ split_id = 0 /\ out.status = "ok"
    /\ num_val = IntArg(2) /\ NumTrainVal >= 4
    /\ Len(val_pids) = 2
    /\ \E p \in SeqSet(train_pids) : \A q \in SeqSet(val_pids) : p > q

(***************************************************************************)
(* Properties of hard_example_mining                                       *)
(***************************************************************************)

Is2D == Len(dist_mat.size) = 2
IsSquare == Is2D /\ dist_mat.size[1] = dist_mat.size[2]
BatchN == dist_mat.size[1]
\* the precondition of section 4.3: N x N matrix, N labels
WellShaped == IsSquare /\ Size(labels) = BatchN

SameId(i) == {j \in DOMAIN labels : labels[j] = labels[i]}
OtherId(i) == {j \in DOMAIN labels : labels[j] # labels[i]}
IdCount(i) == Cardinality(SameId(i))
NumIds == Cardinality({labels[i] : i \in DOMAIN labels})
\* every identity occurs the same number of times
Uniform == \A i, j \in DOMAIN labels : IdCount(i) = IdCount(j)
\* uniform counts and at least two identities
UniformBatch == WellShaped /\ Uniform /\ NumIds >= 2

Dist(i, j) == dist_mat.data[<<i, j>>]
HardestPositive(i) == SetMax({Dist(i, j) : j \in SameId(i)})
HardestNegative(i) == SetMin({Dist(i, j) : j \in OtherId(i)})

Returned == pc = "done" /\ out.status = "ok"
Failed == pc = "done" /\ out.status = "error" /\ "dist_ap" \notin DOMAIN out
                      /\ "dist_an" \notin DOMAIN out

\* C1: on a batch with uniform per-identity counts and at least two
\* identities, hard_example_mining returns, and dist_ap[i] is the maximum of
\* dist[i][j] over the columns j with labels[j] = labels[i] (j = i included).
C1_HardestPositive ==
    (pc = "done" /\ UniformBatch) =>
        /\ out.status = "ok"
        /\ \A i \in Idx(BatchN) : out.dist_ap[i] = HardestPositive(i)

\* an interleaved uniform batch where some anchor's hardest positive is
\* farther than the anchor itself and is not the maximum of its whole row
C1_Witness ==
    /\ Returned /\ UniformBatch /\ BatchN >= 4
    /\ labels[0] # labels[1]
    /\ \E i \in Idx(BatchN) :
          /\ out.dist_ap[i] > Dist(i, i)
          /\ \E j \in OtherId(i) : Dist(i, j) > out.dist_ap[i]

\* C2: on a batch with uniform per-identity counts and at least two
\* identities, hard_example_mining returns, and dist_an[i] is the minimum of
\* dist[i][j] over the columns j with labels[j] # labels[i].
C2_HardestNegative ==
    (pc = "done" /\ UniformBatch) =>
        /\ out.status = "ok"
        /\ \A i \in Idx(BatchN) : out.dist_an[i] = HardestNegative(i)

\* an interleaved uniform batch where some anchor has a negative farther than
\* its hardest negative and a positive nearer than it
C2_Witness ==
    /\ Returned /\ UniformBatch /\ BatchN >= 4
    /\ labels[0] # labels[1]
    /\ \E i \in Idx(BatchN) :
          /\ \E j \in OtherId(i) : Dist(i, j) > out.dist_an[i]
          /\ \E j \in SameId(i) : Dist(i, j) < out.dist_an[i]

\* C3: with return_inds=True on a batch with uniform counts, p_inds[i] and
\* n_inds[i] are absolute column indices in 0..N-1: p_inds[i] has the anchor's
\* label and dist[i][p_inds[i]] = dist_ap[i]; n_inds[i] has another label and
\* dist[i][n_inds[i]] = dist_an[i].
C3_AbsoluteIndices ==
    (pc = "done" /\ WellShaped /\ Uniform /\ "p_inds" \in DOMAIN out) =>
        \A i \in Idx(BatchN) :
            /\ out.p_inds[i] \in Idx(BatchN)
            /\ out.n_inds[i] \in Idx(BatchN)
            /\ labels[out.p_inds[i]] = labels[i]
            /\ Dist(i, out.p_inds[i]) = out.dist_ap[i]
            /\ labels[out.n_inds[i]] # labels[i]
            /\ Dist(i, out.n_inds[i]) = out.dist_an[i]

\* indices were returned, and for some anchor the absolute index of the
\* selected positive differs from its position among the anchor's positives
C3_Witness ==
    /\ Returned /\ UniformBatch /\ "p_inds" \in DOMAIN out
    /\ labels[0] # labels[1]
    /\ \E i \in Idx(BatchN) :
          /\ out.p_inds[i] # i
          /\ out.p_inds[i] # Cardinality({j \in SameId(i) : j < out.p_inds[i]})
          /\ out.n_inds[i] # Cardinality({j \in OtherId(i) : j < out.n_inds[i]})

\* C4: if some anchor has no positive or no negative candidate (in particular
\* when all labels are equal) the call fails and returns no distances; with at
\* least 2 samples per identity, at least 2 identities and uniform counts it
\* does not fail.
C4_EmptyCandidates ==
    (pc = "done" /\ WellShaped) =>
        /\ (\E i \in Idx(BatchN) : SameId(i) = {} \/ OtherId(i) = {}) => Failed
        /\ (Uniform /\ NumIds >= 2 /\ \A i \in Idx(BatchN) : IdCount(i) >= 2)
              => out.status = "ok"

\* a batch of several samples of one identity, on which the call failed
C4_Witness ==
    /\ Failed /\ WellShaped /\ BatchN >= 2
    /\ \A i \in Idx(BatchN) : OtherId(i) = {}

\* C5: the call ends in an error, with no result, when the distance matrix is
\* not a square 2-D matrix and when the label vector's length differs from N
\* (a label vector of length 1, which broadcasts, included).
C5_InvalidShape ==
    (pc = "done" /\ ~WellShaped) => Failed

\* a square matrix of size N >= 2 with a single label, on which the call failed
C5_Witness ==
    /\ Failed /\ IsSquare /\ BatchN >= 2 /\ Size(labels) = 1

\* C8 as stated: for every N x N matrix and N labels, uniform or not, the call
\* either fails or returns every anchor's own-row maximum and minimum.
C8_NeverAnotherRow ==
    (pc = "done" /\ WellShaped) =>
        \/ out.status = "error"
        \/ \A i \in Idx(BatchN) : /\ out.dist_ap[i] = HardestPositive(i)
                                   /\ out.dist_an[i] = HardestNegative(i)

\* the number of same-label pairs (i, j) of the batch
PosPairs == {p \in Idx(BatchN) \X Idx(BatchN) : labels[p[1]] = labels[p[2]]}
NegPairs == {p \in Idx(BatchN) \X Idx(BatchN) : labels[p[1]] # labels[p[2]]}

\* C8 amended: for every N x N matrix and N labels the call fails exactly when
\* N = 0, all labels are equal, or the number of same-label pairs is not a
\* multiple of N.  Otherwise it returns: with uniform counts, every anchor's
\* own-row maximum and minimum; with non-uniform counts, for every anchor a
\* same-label distance and a different-label distance of the matrix, which may
\* come from another anchor's row.
C8_Amended ==
    (pc = "done" /\ WellShaped) =>
        /\ out.status = "error" <=>
              (BatchN = 0 \/ NumIds = 1 \/ Cardinality(PosPairs) % BatchN # 0)
        /\ out.status \in {"ok", "error"}
        /\ (out.status = "ok" /\ Uniform) =>
              \A i \in Idx(BatchN) : /\ out.dist_ap[i] = HardestPositive(i)
                                     /\ out.dist_an[i] = HardestNegative(i)
        /\ out.status = "ok" =>
              \A i \in Idx(BatchN) :
                  /\ out.dist_ap[i] \in {dist_mat.data[p] : p \in PosPairs}
                  /\ out.dist_an[i] \in {dist_mat.data[p] : p \in NegPairs}

\* a batch with non-uniform counts on which the call returned a dist_ap that
\* is not the anchor's own-row maximum
C8_Witness ==
    /\ Returned /\ WellShaped /\ ~Uniform
    /\ \E i \in Idx(BatchN) : out.dist_ap[i] # HardestPositive(i)

(***************************************************************************)
(* Properties of TripletLoss.forward                                       *)
(***************************************************************************)

FwdN == Size(global_feat)
\* the feature forward measures distances on
Feat(i) == IF normalize_feature THEN Normalize(global_feat)[i] ELSE global_feat[i]
\* the distance of samples i and j: |x_i - x_j|, floored at 1e-6
SampleDist(i, j) ==
    IF Feat(i) = Feat(j) THEN DistFloor ELSE Abs(Feat(i) - Feat(j)) * Scale
FarthestSame(i) == SetMax({SampleDist(i, j) : j \in SameId(i)})
NearestOther(i) == SetMin({SampleDist(i, j) : j \in OtherId(i)})
\* every anchor's nearest other-identity sample is farther than its farthest
\* same-identity sample
Separated ==
    \A i \in Idx(FwdN) : OtherId(i) # {} /\ NearestOther(i) > FarthestSame(i)
Correct == {i \in Idx(FwdN) : out.dist_an[i] > out.dist_ap[i]}

\* C6 as stated: precision is the number of anchors with dist_an > dist_ap
\* (strictly) over N, lies in [0, 1], and is 1 whenever every anchor's nearest
\* different-identity sample is farther than its farthest same-identity sample.
C6_Precision ==
    Returned =>
        /\ out.prec.den = FwdN /\ out.prec.den > 0
        /\ out.prec.num = Cardinality(Correct)
        /\ 0 <= out.prec.num /\ out.prec.num <= out.prec.den
        /\ Separated => out.prec.num = out.prec.den

\* C6 amended: as C6, the last part on batches with uniform per-identity
\* counts only: precision is 1 whenever the counts are uniform and every
\* anchor's nearest different-identity sample is farther than its farthest
\* same-identity sample.
C6_Amended ==
    Returned =>
        /\ out.prec.den = FwdN /\ out.prec.den > 0
        /\ out.prec.num = Cardinality(Correct)
        /\ 0 <= out.prec.num /\ out.prec.num <= out.prec.den
        /\ (Uniform /\ Separated) => out.prec.num = out.prec.den

\* a uniform, separated batch of precision 1, ...
C6_Witness ==
    /\ Returned /\ Uniform /\ Separated /\ FwdN >= 4
    /\ out.prec.num = out.prec.den

\* ... and a batch where an anchor with dist_an = dist_ap is not counted
C6_WitnessTie ==
    /\ Returned /\ Uniform
    /\ \E i \in Idx(FwdN) : out.dist_an[i] = out.dist_ap[i]
    /\ out.prec.num = Cardinality({i \in Idx(FwdN) : out.dist_an[i] # out.dist_ap[i]})
    /\ out.prec.num > 0

Hinge(i) == Max0(out.dist_ap[i] - out.dist_an[i] + margin[1])
Gap(i) == out.dist_an[i] - out.dist_ap[i]

\* C7: with a margin m other than None (0 included) the loss is the mean over
\* the anchors of max(0, dist_ap[i] - dist_an[i] + m); an anchor's term does not
\* increase with dist_an[i] - dist_ap[i]; the loss is 0 exactly when
\* dist_an[i] - dist_ap[i] >= m for every anchor; the soft-margin loss is used
\* only when margin is None.
C7_MarginLoss ==
    Returned =>
        /\ out.loss.kind = "SoftMarginLoss" <=> margin = None
        /\ margin # None =>
             /\ out.loss.kind = "MarginRankingLoss"
             /\ out.loss.den = FwdN
             /\ out.loss.num = SumOver([i \in Idx(FwdN) |-> Hinge(i)], Idx(FwdN))
             /\ \A i, j \in Idx(FwdN) : Gap(i) <= Gap(j) => Hinge(i) >= Hinge(j)
             /\ out.loss.num = 0 <=> \A i \in Idx(FwdN) : Gap(i) >= margin[1]

\* a loss of 0 under margin 0, every anchor's gap at or above the margin
C7_Witness ==
    /\ Returned /\ margin = Some(0) /\ FwdN >= 4
    /\ out.loss.kind = "MarginRankingLoss" /\ out.loss.num = 0
    /\ \A i \in Idx(FwdN) : Gap(i) >= 0
    /\ \E i \in Idx(FwdN) : Gap(i) = 0

====
